---- MODULE Spec2Model ----
(***************************************************************************)
(* A model of pulp_container/app/cache.py: the cache-key derivation of the *)
(* three cache classes, RegistryApiCache.make_entry, and the base-path     *)
(* resolver find_base_path_cached, with the collaborators they call        *)
(* (the backing store, the distribution tables, the cached-request         *)
(* dispatch of the parent cache class).                                    *)
(*                                                                         *)
(* Text is modelled as a sequence of one-character strings, so that        *)
(* joining, prefix tests and lexicographic order are computed and not      *)
(* assumed.                                                                *)
(***************************************************************************)
EXTENDS Integers, Sequences, FiniteSets, TLC

\* ------------------------------------------------------------------ text

\* The characters the model's texts are written in, in code-point order.
Alphabet ==
  <<",", "/", ":", "A", "D", "E", "G", "H", "T", "a", "b", "c", "x", "y">>

Ord(c) == CHOOSE i \in DOMAIN Alphabet : Alphabet[i] = c

\* s < t in the lexicographic order of code points (str.__lt__).
RECURSIVE StrLess(_, _)
StrLess(s, t) ==
  IF t = <<>> THEN FALSE
  ELSE IF s = <<>> THEN TRUE
  ELSE IF Head(s) # Head(t) THEN Ord(Head(s)) < Ord(Head(t))
  ELSE StrLess(Tail(s), Tail(t))

\* str.startswith: p is a string prefix of s.
StartsWith(s, p) == Len(p) <= Len(s) /\ SubSeq(s, 1, Len(p)) = p

\* delim.join(parts)
RECURSIVE Join(_, _)
Join(parts, delim) ==
  IF parts = <<>> THEN <<>>
  ELSE IF Len(parts) = 1 THEN parts[1]
  ELSE parts[1] \o delim \o Join(Tail(parts), delim)

\* Insert string s in its place in the sorted list l.
RECURSIVE InsertSorted(_, _)
InsertSorted(s, l) ==
  IF l = <<>> THEN <<s>>
  ELSE IF StrLess(s, Head(l)) THEN <<s>> \o l
  ELSE <<Head(l)>> \o InsertSorted(s, Tail(l))

\* sorted(l) on a list of strings.
RECURSIVE Sorted(_)
Sorted(l) == IF l = <<>> THEN <<>> ELSE InsertSorted(Head(l), Sorted(Tail(l)))

\* The texts of the model.
S_GET == <<"G", "E", "T">>
S_HEAD == <<"H", "E", "A", "D">>
S_a == <<"a">>
S_ab == <<"a", "b">>
S_a_b == <<"a", "/", "b">>
S_a_b_c == <<"a", "/", "b", "/", "c">>
S_b == <<"b">>
S_c == <<"c">>
S_x == <<"x">>
S_y == <<"y">>
S_a_GET == <<"a", ":", "G", "E", "T">>
S_GET_x == <<"G", "E", "T", ":", "x">>
S_x_y == <<"x", ",", "y">>
Colon == <<":">>
Comma == <<",">>

\* ------------------------------------------------------- key derivation

\* The requests key derivation is checked on.  accept is the list of the
\* request's Accept header instances, in the order they were sent; query is
\* the request's query string as urlencode() returns it.
KeyPaths == {S_a, S_a_b, S_a_GET}
KeyMethods == {S_GET, S_HEAD}
KeyHosts == {"h1", "h2"}
KeyAccepts == {<<>>, <<S_x>>, <<S_x, S_y>>, <<S_y, S_x>>, <<S_GET_x>>, <<S_x_y>>}
KeyQueries == {<<>>, S_x}

KeyRequests ==
  [path : KeyPaths, method : KeyMethods, host : KeyHosts,
   accept : KeyAccepts, query : KeyQueries]

\* RegistryCache.__init__: the key specs of both registry caches.
RegistryCacheKeys == <<"path", "method", "accept_header">>

\* FlatpakIndexStaticCache.__init__: the key specs of the static index cache.
FlatpakCacheKeys == <<"query">>

\* ":".join(all_keys[k] for k in self.keys)
JoinKeys(all_keys, keys) ==
  Join([i \in DOMAIN keys |-> all_keys[keys[i]]], Colon)

\* RegistryContentCache.make_key: the values the key is joined from.
ContentAllKeysUnsorted(request) ==
  [path |-> request.path,
   method |-> request.method,
   host |-> request.host,
   accept_header |-> Join(request.accept, Comma)]

ContentAllKeys(request) ==
  [path |-> request.path,
   method |-> request.method,
   host |-> request.host,
   accept_header |-> Join(Sorted(request.accept), Comma)]

RegistryContentCache_make_key(request) ==
  JoinKeys(ContentAllKeys(request), RegistryCacheKeys)

\* request.headers.get("accept", ""): the header instances as the server
\* hands them over, joined by "," in the order sent; "" when there is none.
HeadersGetAccept(request) == Join(request.accept, Comma)

\* RegistryApiCache.make_key: the values the key is joined from.
ApiAllKeys(request) ==
  [path |-> request.path,
   method |-> request.method,
   host |-> request.host,
   accept_header |-> HeadersGetAccept(request)]

RegistryApiCache_make_key(request) ==
  JoinKeys(ApiAllKeys(request), RegistryCacheKeys)

\* FlatpakIndexStaticCache.make_key
FlatpakAllKeys(request) == [query |-> request.query]

FlatpakIndexStaticCache_make_key(request) ==
  JoinKeys(FlatpakAllKeys(request), FlatpakCacheKeys)

CacheClasses == {"RegistryContentCache", "RegistryApiCache", "FlatpakIndexStaticCache"}

\* ------------------------------------------------------ python values

\* None, and a number that may be None: <<>> is None, <<n>> is n.
None == <<>>
Some(n) == <<n>>

\* d[k] = v on a dict d (a function from field names to values).
DictSet(d, k, v) == [x \in (DOMAIN d) \cup {k} |-> IF x = k THEN v ELSE d[x]]

\* json.dumps / json.loads of an entry: the stored value is a text object
\* that holds the entry's fields, not the dict itself.
JsonDumps(entry) == [json |-> entry]
JsonLoads(text) == text.json

\* ------------------------------------------------------- backing store
\* The store holds records [base_key, key, value, ttl, set_at]: value is the
\* text passed to set, ttl the TTL passed with it (None: no TTL), and set_at
\* the time of the set call (kept to decide when the store's own TTL is due).

\* pulpcore.plugin.util.cache_key: the base key of a base path in a domain.
cache_key(domain, base_path) == <<domain, base_path>>

\* cached.exists(base_key=base_key): is there a partition under base_key.
Exists(store_, base_key) == \E r \in store_ : r.base_key = base_key

\* cached.get(key, base_key): the records under (base_key, key), at most one.
StoreGet(store_, key, base_key) ==
  {r \in store_ : r.base_key = base_key /\ r.key = key}

\* self.set(key, value, expires, base_key=base_key) at time t: one atomic
\* write that replaces whatever was stored under (base_key, key).
StoreSet(store_, key, value, expires, base_key, t) ==
  (store_ \ StoreGet(store_, key, base_key))
    \cup {[base_key |-> base_key, key |-> key, value |-> value,
           ttl |-> expires, set_at |-> t]}

\* cached.delete(base_key=base_key): bulk invalidation of a partition.
StoreInvalidate(store_, base_key) == {r \in store_ : r.base_key # base_key}

\* ------------------------------------------------------- distributions
\* A distribution is [base_path, pulp_domain]; the concrete and the
\* pull-through distributions are two tables.

Domains == {"d1", "d2"}
BasePaths == {S_a, S_a_b, S_b}
ResolvePaths == {S_a_b, S_a_b_c, S_ab, S_c}

Distro(domain, base_path) == [base_path |-> base_path, pulp_domain |-> domain]

\* ContainerDistribution.objects.get(base_path=path, pulp_domain=domain):
\* the matching rows; none is ObjectDoesNotExist.
ObjectsGet(distros_, path, domain) ==
  {d \in distros_ : d.base_path = path /\ d.pulp_domain = domain}

\* .annotate(path=Value(path)).filter(path__startswith=F("base_path"),
\*                                    pulp_domain=domain)
PullThroughFilter(pts_, path, domain) ==
  {d \in pts_ : StartsWith(path, d.base_path) /\ d.pulp_domain = domain}

\* .order_by("-base_path").first(): the row with the greatest base_path, or
\* no row (the empty set) when there is none.
OrderByDescFirstAsc(rows) ==
  IF rows = {} THEN {}
  ELSE {CHOOSE d \in rows :
          \A e \in rows : e = d \/ StrLess(d.base_path, e.base_path)}

OrderByDescFirst(rows) ==
  IF rows = {} THEN {}
  ELSE {CHOOSE d \in rows :
          \A e \in rows : e = d \/ StrLess(e.base_path, d.base_path)}

\* find_base_path_cached(request, cached), the caller's domain being domain:
\* what it returns, or the exception it raises.
Returned(base_key) == [kind |-> "return", base_key |-> base_key]
RepositoryNotFound(name) == [kind |-> "RepositoryNotFound", name |-> name]

FindInTablesPullThroughFirst(path, domain, distros_, pts_) ==
  LET exact == ObjectsGet(distros_, path, domain)
      first == OrderByDescFirst(PullThroughFilter(pts_, path, domain))
  IN  IF first # {}
        THEN Returned(cache_key(domain, (CHOOSE d \in first : TRUE).base_path))
      ELSE IF exact = {}
        THEN RepositoryNotFound(path)
      ELSE Returned(cache_key(domain, (CHOOSE d \in exact : TRUE).base_path))

FindInTables(path, domain, distros_, pts_) ==
  LET exact == ObjectsGet(distros_, path, domain)
      first == OrderByDescFirst(PullThroughFilter(pts_, path, domain))
  IN  IF exact # {}
        THEN Returned(cache_key(domain, (CHOOSE d \in exact : TRUE).base_path))
      ELSE IF first = {}
        THEN RepositoryNotFound(path)
      ELSE Returned(cache_key(domain, (CHOOSE d \in first : TRUE).base_path))

find_base_path_cached_unchecked(path, domain, store_, distros_, pts_) ==
  FindInTables(path, domain, distros_, pts_)

find_base_path_cached(path, domain, store_, distros_, pts_) ==
  LET base_key == cache_key(domain, path)
      path_exists == Exists(store_, base_key)
  IN  IF path_exists THEN Returned(base_key)
      ELSE FindInTables(path, domain, distros_, pts_)

\* ------------------------------------------------ responses and entries
\* A response is [cls, status_code, headers, content, is_rendered, filename];
\* headers is a dict from header names to values.

\* The response classes make_entry tells apart, each with the classes it is
\* an instance of (django.http and rest_framework.response).
Bases(cls) ==
  CASE cls = "HttpResponseRedirect" -> {"HttpResponseRedirect", "HttpResponse"}
    [] cls = "FileResponse" -> {"FileResponse", "StreamingHttpResponse"}
    [] cls = "Response" -> {"Response", "HttpResponse"}
    [] cls = "HttpResponse" -> {"HttpResponse"}
    [] cls = "StreamingHttpResponse" -> {"StreamingHttpResponse"}

IsInstance(response, cls) == cls \in Bases(response.cls)

\* The responses a handler returns in the model: one of each class, and a
\* rest_framework Response both rendered and not yet rendered.
HandlerResponses ==
  { [cls |-> "HttpResponseRedirect", status_code |-> 302,
     headers |-> ("Location" :> "/blob"),
     content |-> "", is_rendered |-> TRUE, filename |-> ""],
    [cls |-> "FileResponse", status_code |-> 200,
     headers |-> ("Content-Type" :> "application/octet-stream"),
     content |-> "", is_rendered |-> TRUE, filename |-> "/media/blob"],
    [cls |-> "Response", status_code |-> 200,
     headers |-> ("Content-Type" :> "application/json"),
     content |-> "{}", is_rendered |-> TRUE, filename |-> ""],
    [cls |-> "Response", status_code |-> 200,
     headers |-> ("Content-Type" :> "text/html"),
     content |-> "", is_rendered |-> FALSE, filename |-> ""],
    [cls |-> "HttpResponse", status_code |-> 200,
     headers |-> ("Content-Type" :> "text/plain"),
     content |-> "raw", is_rendered |-> TRUE, filename |-> ""],
    [cls |-> "StreamingHttpResponse", status_code |-> 200,
     headers |-> ("Content-Type" :> "application/octet-stream"),
     content |-> "", is_rendered |-> TRUE, filename |-> ""] }

\* entry["expires"] of make_entry called with TTL expires at time t.
EntryExpiresNoClock(expires, t) == expires

EntryExpiresNever(expires, t) == None

EntryExpires(expires, t) ==
  IF expires # None THEN Some(expires[1] + t) ELSE None

\* The variant make_entry stores a response as: the isinstance tests in the
\* order they are tried; "none" is the else branch (not cached).
VariantRawFirst(response) ==
  IF IsInstance(response, "HttpResponse") /\ ~IsInstance(response, "Response")
    THEN "HttpResponse"
  ELSE IF IsInstance(response, "HttpResponseRedirect") THEN "Redirect"
  ELSE IF IsInstance(response, "FileResponse") THEN "FileResponse"
  ELSE IF IsInstance(response, "Response") THEN "Response"
  ELSE "none"

VariantNoElse(response) ==
  IF IsInstance(response, "HttpResponseRedirect") THEN "Redirect"
  ELSE IF IsInstance(response, "FileResponse") THEN "FileResponse"
  ELSE IF IsInstance(response, "Response") THEN "Response"
  ELSE "HttpResponse"

Variant(response) ==
  IF IsInstance(response, "HttpResponseRedirect") THEN "Redirect"
  ELSE IF IsInstance(response, "FileResponse") THEN "FileResponse"
  ELSE IF IsInstance(response, "Response") THEN "Response"
  ELSE IF IsInstance(response, "HttpResponse") THEN "HttpResponse"
  ELSE "none"

\* dict(response.headers): the entry's own copy of the headers, taken before
\* the response is marked.
Marked(response) ==
  [response EXCEPT !.headers = DictSet(@, "X-PULP-CACHE", "MISS")]

EntryHeadersShared(response) == Marked(response).headers

EntryHeaders(response) == response.headers

\* response.headers["X-PULP-CACHE"] = "MISS", on the live response.
MarkMissWhenStored(response) ==
  IF Variant(response) = "none" THEN response ELSE Marked(response)

MarkMiss(response) == Marked(response)

\* make_entry after the handler has returned response, at time t: the entry
\* it builds, the live response, and how it ends: "set" (the entry is
\* written and the response returned), "return" (nothing is written) or
\* "raise" (an exception leaves make_entry before the write).
make_entry_encode(response, expires, t) ==
  LET entry == [headers |-> EntryHeaders(response),
                status |-> response.status_code,
                expires |-> EntryExpires(expires, t)]
      live == MarkMiss(response)
      variant == Variant(response)
  IN  CASE variant = "Redirect" ->
             [ends |-> "set", response |-> live,
              entry |-> DictSet(DictSet(entry, "redirect_to",
                                        live.headers["Location"]),
                                "type", "Redirect")]
        [] variant = "FileResponse" ->
             [ends |-> "set", response |-> live,
              entry |-> DictSet(DictSet(entry, "path", response.filename),
                                "type", "FileResponse")]
        [] variant = "Response" ->
             \* response.render() is not called: reading the content of a
             \* response that is not rendered raises ContentNotRenderedError.
             IF response.is_rendered THEN
               [ends |-> "set", response |-> live,
                entry |-> DictSet(DictSet(entry, "content", response.content),
                                  "type", "Response")]
             ELSE [ends |-> "raise", response |-> live, entry |-> entry]
        [] variant = "HttpResponse" ->
             [ends |-> "set", response |-> live,
              entry |-> DictSet(DictSet(entry, "content", response.content),
                                "type", "Response")]
        [] variant = "none" ->
             [ends |-> "return", response |-> live, entry |-> entry]

\* The parent class's expiry check on an entry read at time t.
IsExpired(entry, t) == entry.expires # None /\ entry.expires[1] < t

\* The parent class's replay of an entry: the response of a hit.
make_response(entry) ==
  [type |-> entry.type, status_code |-> entry.status,
   headers |-> DictSet(entry.headers, "X-PULP-CACHE", "HIT")]

\* --------------------------------------------------------------- state

MaxTime == 12
MaxDistros == 2
MaxPullThrough == 2
MaxEntries == 2

\* The TTLs a cache is configured with (settings.CACHE_SETTINGS["EXPIRES_TTL"]).
TTLs == {None, Some(10)}
TickSteps == {1, 10}

Workers == {1, 2}

\* A request of the registry API: the URL path is "/" and the repository
\* path the route matched (resolver_match.kwargs["path"]).
ApiRequest(domain, path, method) ==
  [path |-> <<"/">> \o path, method |-> method, host |-> "h1",
   accept |-> <<>>, query |-> <<>>, kwargs_path |-> path, domain |-> domain]

ApiRequests == {ApiRequest("d1", S_a_b, S_GET), ApiRequest("d1", S_a_b_c, S_GET)}

IdleWorker ==
  [pc |-> "idle", request |-> ApiRequest("", <<>>, <<>>), key |-> <<>>,
   base_key |-> <<>>, response |-> <<>>, calls |-> 0, served |-> "none",
   read |-> "none", wrote |-> <<>>, handled |-> <<>>]

IdleCall == [state |-> "idle", path |-> <<>>, domain |-> "", result |-> [kind |-> "none"]]

VARIABLES
  kreqA, kreqB,   \* two requests
  kclass,         \* the cache class whose make_key ran last, or "none"
  kkeyA, kkeyB,   \* the keys it made for the two requests
  now,            \* time.time()
  expires_ttl,    \* the TTL the cache is configured with
  store,          \* the backing store
  distros,        \* the ContainerDistribution table
  ptDistros,      \* the ContainerPullThroughDistribution table
  rcall,          \* a call of find_base_path_cached and how it ended
  wk,             \* each worker's request in flight
  active          \* the workers that serve requests

kvars == <<kreqA, kreqB, kclass, kkeyA, kkeyB>>

vars ==
  <<kreqA, kreqB, kclass, kkeyA, kkeyB, now, expires_ttl, store, distros,
    ptDistros, rcall, wk, active>>

\* ------------------------------------------------------ key derivation

NoRequest ==
  [path |-> <<>>, method |-> <<>>, host |-> "", accept |-> <<>>, query |-> <<>>]

KeyIdle ==
  /\ kreqA = NoRequest
  /\ kreqB = NoRequest
  /\ kclass = "none"
  /\ kkeyA = <<>>
  /\ kkeyB = <<>>

CacheIdle ==
  /\ now = 0
  /\ expires_ttl = None
  /\ store = {}
  /\ distros = {}
  /\ ptDistros = {}
  /\ rcall = IdleCall
  /\ wk = [w \in Workers |-> IdleWorker]
  /\ active = {}

cvars == <<now, expires_ttl, store, distros, ptDistros, rcall, wk, active>>

KeyInit ==
  /\ kreqA \in KeyRequests
  /\ kreqB \in KeyRequests
  /\ kclass = "none"
  /\ kkeyA = <<>>
  /\ kkeyB = <<>>
  /\ CacheIdle

ContentMakeKey ==
  /\ kclass' = "RegistryContentCache"
  /\ kkeyA' = RegistryContentCache_make_key(kreqA)
  /\ kkeyB' = RegistryContentCache_make_key(kreqB)
  /\ UNCHANGED <<kreqA, kreqB, cvars>>

ApiMakeKey ==
  /\ kclass' = "RegistryApiCache"
  /\ kkeyA' = RegistryApiCache_make_key(kreqA)
  /\ kkeyB' = RegistryApiCache_make_key(kreqB)
  /\ UNCHANGED <<kreqA, kreqB, cvars>>

FlatpakMakeKey ==
  /\ kclass' = "FlatpakIndexStaticCache"
  /\ kkeyA' = FlatpakIndexStaticCache_make_key(kreqA)
  /\ kkeyB' = FlatpakIndexStaticCache_make_key(kreqB)
  /\ UNCHANGED <<kreqA, kreqB, cvars>>

KeyNext == ContentMakeKey \/ ApiMakeKey \/ FlatpakMakeKey

SpecKey == KeyInit /\ [][KeyNext]_vars

\* --------------------------------------------------- base-path resolver

ResolveInit == KeyIdle /\ CacheIdle

\* The distribution API creates a concrete distribution.
CreateDistribution(domain, base_path) ==
  /\ Cardinality(distros) < MaxDistros
  /\ Distro(domain, base_path) \notin distros
  /\ distros' = distros \cup {Distro(domain, base_path)}
  /\ UNCHANGED <<kvars, now, expires_ttl, store, ptDistros, rcall, wk, active>>

\* The distribution API deletes a concrete distribution.
DeleteDistribution(d) ==
  /\ d \in distros
  /\ distros' = distros \ {d}
  /\ UNCHANGED <<kvars, now, expires_ttl, store, ptDistros, rcall, wk, active>>

\* The distribution API creates a pull-through distribution.
CreatePullThrough(domain, base_path) ==
  /\ Cardinality(ptDistros) < MaxPullThrough
  /\ Distro(domain, base_path) \notin ptDistros
  /\ ptDistros' = ptDistros \cup {Distro(domain, base_path)}
  /\ UNCHANGED <<kvars, now, expires_ttl, store, distros, rcall, wk, active>>

\* A call of find_base_path_cached for path, the caller's domain being
\* domain, and what it returned or raised.
CallOf(path, domain, result) ==
  [state |-> IF result.kind = "return" THEN "returned" ELSE "raised",
   path |-> path, domain |-> domain, result |-> result]

ResolveCreating(path, domain) ==
  /\ rcall.state = "idle"
  /\ LET result == find_base_path_cached(path, domain, store, distros, ptDistros)
     IN  /\ rcall' = CallOf(path, domain, result)
         /\ distros' = IF result.kind = "return" THEN distros
                       ELSE distros \cup {Distro(domain, path)}
  /\ UNCHANGED <<kvars, now, expires_ttl, store, ptDistros, wk, active>>

\* A request for path in domain reaches find_base_path_cached.
Resolve(path, domain) ==
  /\ rcall.state = "idle"
  /\ rcall' = CallOf(path, domain,
                     find_base_path_cached(path, domain, store, distros, ptDistros))
  /\ UNCHANGED <<kvars, now, expires_ttl, store, distros, ptDistros, wk, active>>

\* The request that resolved its base key misses, and make_entry writes its
\* entry under that base key.
ResolvedSet ==
  /\ rcall.state = "returned"
  /\ LET request == ApiRequest(rcall.domain, rcall.path, S_GET)
         key == RegistryApiCache_make_key(request)
         enc == make_entry_encode(
                  CHOOSE r \in HandlerResponses : r.cls = "HttpResponseRedirect",
                  expires_ttl, now)
         had == StoreGet(store, key, rcall.result.base_key)
     IN  /\ had # {} \/ Cardinality(store) < MaxEntries
         /\ store' = StoreSet(store, key, JsonDumps(enc.entry), expires_ttl,
                              rcall.result.base_key, now)
  /\ rcall' = IdleCall
  /\ UNCHANGED <<kvars, now, expires_ttl, distros, ptDistros, wk, active>>

\* The request ends without a write (a hit, or the exception is reported).
ResolvedDone ==
  /\ rcall.state # "idle"
  /\ rcall' = IdleCall
  /\ UNCHANGED <<kvars, now, expires_ttl, store, distros, ptDistros, wk, active>>

\* A bulk invalidation of the partition under base_key.
Invalidate(base_key) ==
  /\ Exists(store, base_key)
  /\ store' = StoreInvalidate(store, base_key)
  /\ UNCHANGED <<kvars, now, expires_ttl, distros, ptDistros, rcall, wk, active>>

ResolveNext ==
  \/ \E d \in Domains, p \in BasePaths : CreateDistribution(d, p)
  \/ \E d \in distros : DeleteDistribution(d)
  \/ \E d \in Domains, p \in BasePaths : CreatePullThrough(d, p)
  \/ \E d \in Domains, p \in ResolvePaths : Resolve(p, d)
  \/ ResolvedSet
  \/ ResolvedDone
  \/ \E b \in {r.base_key : r \in store} : Invalidate(b)

SpecResolve == ResolveInit /\ [][ResolveNext]_vars

\* A step in which a call of find_base_path_cached ends.
ResolveStep == rcall.state = "idle" /\ rcall'.state # "idle"

\* What the call found before it ran: a partition under the path's own base
\* key, a concrete distribution of that exact base path, and the pull-through
\* distributions of the domain whose base path the request path starts with.
HasPartition(path, domain) ==
  \E r \in store : r.base_key = cache_key(domain, path)

HasExact(path, domain) ==
  \E d \in distros : d.pulp_domain = domain /\ d.base_path = path

PrefixMatches(path, domain) ==
  {d \in ptDistros :
     /\ d.pulp_domain = domain
     /\ \E n \in 0..Len(path) : d.base_path = [i \in 1..n |-> path[i]]}

\* C1: with no partition under the request path's base key and no concrete
\* distribution of that base path, the call returns the base key of the
\* pull-through distribution with the greatest base path among those that are
\* prefixes of the path; with pull-through base paths "a" and "a/b", a request
\* for "a/b/c" resolves to "a/b".
C1_GreatestPrefix ==
  [][ResolveStep =>
       LET path == rcall'.path
           domain == rcall'.domain
           matches == PrefixMatches(path, domain)
       IN  (~HasPartition(path, domain) /\ ~HasExact(path, domain) /\ matches # {})
             => /\ rcall'.state = "returned"
                /\ \E m \in matches :
                     /\ \A e \in matches :
                          e = m \/ StrLess(e.base_path, m.base_path)
                     /\ rcall'.result = Returned(cache_key(domain, m.base_path))
                /\ (path = S_a_b_c /\ {Distro(domain, S_a), Distro(domain, S_a_b)}
                                        \subseteq ptDistros)
                     => rcall'.result = Returned(cache_key(domain, S_a_b))
  ]_vars

C1_Witness ==
  /\ rcall.state = "returned"
  /\ rcall.path = S_a_b_c
  /\ {Distro(rcall.domain, S_a), Distro(rcall.domain, S_a_b)} \subseteq ptDistros
  /\ ~HasPartition(rcall.path, rcall.domain)
  /\ ~HasExact(rcall.path, rcall.domain)
  /\ rcall.result = Returned(cache_key(rcall.domain, S_a_b))

\* C2: with no partition, no concrete distribution of that base path and no
\* pull-through distribution whose base path is a prefix of the request path,
\* the call raises RepositoryNotFound naming the request path, and the
\* distribution tables and the store are as they were before the call.
C2_NotFound ==
  [][ResolveStep =>
       LET path == rcall'.path
           domain == rcall'.domain
       IN  (~HasPartition(path, domain) /\ ~HasExact(path, domain)
              /\ PrefixMatches(path, domain) = {})
             => /\ rcall'.state = "raised"
                /\ rcall'.result = RepositoryNotFound(path)
                /\ UNCHANGED <<distros, ptDistros, store>>
  ]_vars

C2_Witness ==
  /\ rcall.state = "raised"
  /\ rcall.path = S_c
  /\ rcall.result = RepositoryNotFound(S_c)
  /\ distros # {}
  /\ ptDistros # {}
  /\ store # {}
  /\ Distro(rcall.domain, rcall.path) \notin distros

\* C3: when a partition exists under the base key of the request path, the
\* call returns that base key, whatever the distribution tables hold: also
\* when no concrete distribution and no pull-through distribution matches.
C3_PartitionShortCircuit ==
  [][ResolveStep =>
       LET path == rcall'.path
           domain == rcall'.domain
       IN  HasPartition(path, domain)
             => rcall'.result = Returned(cache_key(domain, path))
  ]_vars

\* The stale case: the partition is there and no distribution matches.
C3_Witness ==
  /\ rcall.state = "returned"
  /\ rcall.result = Returned(cache_key(rcall.domain, rcall.path))
  /\ HasPartition(rcall.path, rcall.domain)
  /\ ~HasExact(rcall.path, rcall.domain)
  /\ PrefixMatches(rcall.path, rcall.domain) = {}

\* C4: with no partition and a concrete distribution whose base path is the
\* request path, the call returns that distribution's base key, whichever
\* pull-through distributions have a base path that is a prefix of the path.
C4_ExactFirst ==
  [][ResolveStep =>
       LET path == rcall'.path
           domain == rcall'.domain
       IN  (~HasPartition(path, domain) /\ HasExact(path, domain))
             => rcall'.result = Returned(cache_key(domain, path))
  ]_vars

C4_Witness ==
  /\ rcall.state = "returned"
  /\ rcall.result = Returned(cache_key(rcall.domain, rcall.path))
  /\ ~HasPartition(rcall.path, rcall.domain)
  /\ HasExact(rcall.path, rcall.domain)
  /\ \E m \in PrefixMatches(rcall.path, rcall.domain) : m.base_path # rcall.path

\* ----------------------------------------------------- cached requests
\* A worker serves one request at a time: the cached dispatch of the parent
\* class (make_key, the base key, the read of the store), and on a miss
\* make_entry, in two steps: the handler runs (other workers and the clock
\* move meanwhile), then the entry is built and written.

CacheInit ==
  /\ KeyIdle
  /\ now = 0
  /\ expires_ttl \in TTLs
  /\ store = {}
  /\ distros = {Distro("d1", S_a_b)}
  /\ ptDistros = {Distro("d1", S_a)}
  /\ rcall = IdleCall
  /\ wk = [w \in Workers |-> IdleWorker]
  /\ active = {1}

\* The store's own TTL has not run out at time t.
WithinTtl(r, t) == r.ttl = None \/ t <= r.set_at + r.ttl[1]

\* The parent class's dispatch of a cached view: key, base key, read; a hit
\* is replayed at once, a miss goes on to make_entry.
CachedRequest(w, request) ==
  /\ w \in active
  /\ wk[w].pc = "idle"
  /\ LET key == RegistryApiCache_make_key(request)
         found == find_base_path_cached(request.kwargs_path, request.domain,
                                        store, distros, ptDistros)
         got == IF found.kind = "return"
                  THEN StoreGet(store, key, found.base_key) ELSE {}
         rec == CHOOSE r \in got : TRUE
         me == [IdleWorker EXCEPT !.request = request, !.key = key]
     IN  wk' = [wk EXCEPT ![w] =
           IF found.kind # "return" THEN
             [me EXCEPT !.pc = "failed", !.served = found.kind]
           ELSE IF got = {} THEN
             [me EXCEPT !.pc = "miss", !.base_key = found.base_key,
                        !.read = "absent"]
           ELSE IF IsExpired(JsonLoads(rec.value), now) THEN
             [me EXCEPT !.pc = "miss", !.base_key = found.base_key,
                        !.read = IF WithinTtl(rec, now) THEN "fresh" ELSE "expired"]
           ELSE
             [me EXCEPT !.pc = "done", !.base_key = found.base_key,
                        !.read = IF WithinTtl(rec, now) THEN "fresh" ELSE "expired",
                        !.response = make_response(JsonLoads(rec.value)),
                        !.served = "HIT"]]
  /\ UNCHANGED <<kvars, now, expires_ttl, store, distros, ptDistros, rcall, active>>

\* make_entry, its first line: the handler is called and returns response.
HandlerReturns(w, response) ==
  /\ w \in active
  /\ wk[w].pc = "miss"
  /\ wk' = [wk EXCEPT ![w].pc = "handled", ![w].response = response,
                      ![w].handled = response, ![w].calls = @ + 1]
  /\ UNCHANGED <<kvars, now, expires_ttl, store, distros, ptDistros, rcall, active>>

\* make_entry, its first line: the handler is called and raises.
HandlerRaises(w) ==
  /\ w \in active
  /\ wk[w].pc = "miss"
  /\ wk' = [wk EXCEPT ![w].pc = "failed", ![w].calls = @ + 1,
                      ![w].served = "HandlerError"]
  /\ UNCHANGED <<kvars, now, expires_ttl, store, distros, ptDistros, rcall, active>>

\* d.update(e) on two dicts.
DictUpdate(d, e) ==
  [x \in (DOMAIN d) \cup (DOMAIN e) |-> IF x \in DOMAIN e THEN e[x] ELSE d[x]]

MakeEntryMerging(w) ==
  /\ w \in active
  /\ wk[w].pc = "handled"
  /\ LET enc == make_entry_encode(wk[w].response, expires_ttl, now)
         value == JsonDumps(enc.entry)
         had == StoreGet(store, wk[w].key, wk[w].base_key)
         merged == IF had = {} THEN value
                   ELSE JsonDumps(DictUpdate(
                          JsonLoads((CHOOSE r \in had : TRUE).value), enc.entry))
     IN  CASE enc.ends = "set" ->
                /\ store' = StoreSet(store, wk[w].key, merged, expires_ttl,
                                     wk[w].base_key, now)
                /\ wk' = [wk EXCEPT ![w].pc = "done", ![w].response = enc.response,
                                    ![w].served = "MISS", ![w].wrote = <<value>>]
           [] enc.ends = "return" ->
                /\ store' = store
                /\ wk' = [wk EXCEPT ![w].pc = "done", ![w].response = enc.response,
                                    ![w].served = "MISS"]
           [] enc.ends = "raise" ->
                /\ store' = store
                /\ wk' = [wk EXCEPT ![w].pc = "failed", ![w].response = enc.response,
                                    ![w].served = "ContentNotRenderedError"]
  /\ UNCHANGED <<kvars, now, expires_ttl, distros, ptDistros, rcall, active>>

MakeEntryEarlySet(w) ==
  /\ w \in active
  /\ wk[w].pc = "handled"
  /\ LET enc == make_entry_encode(wk[w].response, expires_ttl, now)
         value == JsonDumps(enc.entry)
     IN  CASE enc.ends = "set" ->
                /\ store' = StoreSet(store, wk[w].key, value, expires_ttl,
                                     wk[w].base_key, now)
                /\ wk' = [wk EXCEPT ![w].pc = "done", ![w].response = enc.response,
                                    ![w].served = "MISS", ![w].wrote = <<value>>]
           [] enc.ends = "return" ->
                /\ store' = store
                /\ wk' = [wk EXCEPT ![w].pc = "done", ![w].response = enc.response,
                                    ![w].served = "MISS"]
           [] enc.ends = "raise" ->
                /\ store' = StoreSet(store, wk[w].key, value, expires_ttl,
                                     wk[w].base_key, now)
                /\ wk' = [wk EXCEPT ![w].pc = "failed", ![w].response = enc.response,
                                    ![w].served = "ContentNotRenderedError"]
  /\ UNCHANGED <<kvars, now, expires_ttl, distros, ptDistros, rcall, active>>

\* make_entry, the rest: the entry is built from the response, the response
\* is marked, and the entry is written with one set.
MakeEntry(w) ==
  /\ w \in active
  /\ wk[w].pc = "handled"
  /\ LET enc == make_entry_encode(wk[w].response, expires_ttl, now)
         value == JsonDumps(enc.entry)
     IN  CASE enc.ends = "set" ->
                /\ store' = StoreSet(store, wk[w].key, value, expires_ttl,
                                     wk[w].base_key, now)
                /\ wk' = [wk EXCEPT ![w].pc = "done", ![w].response = enc.response,
                                    ![w].served = "MISS", ![w].wrote = <<value>>]
           [] enc.ends = "return" ->
                /\ store' = store
                /\ wk' = [wk EXCEPT ![w].pc = "done", ![w].response = enc.response,
                                    ![w].served = "MISS"]
           [] enc.ends = "raise" ->
                /\ store' = store
                /\ wk' = [wk EXCEPT ![w].pc = "failed", ![w].response = enc.response,
                                    ![w].served = "ContentNotRenderedError"]
  /\ UNCHANGED <<kvars, now, expires_ttl, distros, ptDistros, rcall, active>>

\* The response (or the error) has been sent; the worker is free again.
Finish(w) ==
  /\ w \in active
  /\ wk[w].pc \in {"done", "failed"}
  /\ wk' = [wk EXCEPT ![w] = IdleWorker]
  /\ UNCHANGED <<kvars, now, expires_ttl, store, distros, ptDistros, rcall, active>>

\* Time passes.
Tick(step) ==
  /\ now + step <= MaxTime
  /\ now' = now + step
  /\ UNCHANGED <<kvars, expires_ttl, store, distros, ptDistros, rcall, wk, active>>

\* The store's own TTL removes a record, some time after it has run out.
Evict(r) ==
  /\ r \in store
  /\ ~WithinTtl(r, now)
  /\ store' = store \ {r}
  /\ UNCHANGED <<kvars, now, expires_ttl, distros, ptDistros, rcall, wk, active>>

Next ==
  \/ \E w \in Workers, request \in ApiRequests : CachedRequest(w, request)
  \/ \E w \in Workers, response \in HandlerResponses : HandlerReturns(w, response)
  \/ \E w \in Workers : HandlerRaises(w)
  \/ \E w \in Workers : MakeEntry(w)
  \/ \E w \in Workers : Finish(w)
  \/ \E step \in TickSteps : Tick(step)
  \/ \E r \in store : Evict(r)
  \/ \E b \in {r.base_key : r \in store} : Invalidate(b)

Spec == CacheInit /\ [][Next]_vars

Marker(response) ==
  IF "X-PULP-CACHE" \in DOMAIN response.headers
    THEN response.headers["X-PULP-CACHE"] ELSE "none"

\* The response classes make_entry has a variant for.
Cacheable(response) ==
  \E cls \in {"HttpResponseRedirect", "FileResponse", "Response", "HttpResponse"} :
     cls \in Bases(response.cls)

\* C5: a request whose key has no entry ends with the handler called once,
\* the entry written and the response served marked MISS; a request that
\* reads a present entry within its TTL is served marked HIT without a call
\* of the handler.  (Stated for the responses make_entry has a variant for,
\* and for handlers that return.)
C5_MissThenHit ==
  \A w \in Workers :
    /\ (/\ wk[w].pc \in {"done", "failed"}
        /\ wk[w].read = "absent"
        /\ wk[w].served # "HandlerError"
        /\ Cacheable(wk[w].response))
         => /\ wk[w].calls = 1
            /\ wk[w].served = "MISS"
            /\ Marker(wk[w].response) = "MISS"
            /\ wk[w].wrote # <<>>
    /\ (wk[w].pc = "done" /\ wk[w].read = "fresh")
         => /\ wk[w].served = "HIT"
            /\ wk[w].calls = 0
            /\ Marker(wk[w].response) = "HIT"

\* C6: a request that reads an entry which is still in the store after its
\* TTL has run out is never served as a hit: it goes the way of a miss, the
\* handler is called, and the response is marked MISS.
C6_ExpiredIsMiss ==
  \A w \in Workers :
    wk[w].read = "expired"
      => /\ wk[w].pc \in {"miss", "handled", "done", "failed"}
         /\ wk[w].served # "HIT"
         /\ wk[w].pc \in {"handled", "done", "failed"} => wk[w].calls = 1
         /\ wk[w].pc = "done"
              => wk[w].served = "MISS" /\ Marker(wk[w].response) = "MISS"
         /\ (wk[w].pc = "failed" /\ wk[w].served # "HandlerError")
              => Marker(wk[w].response) = "MISS"

C6_Witness ==
  \E w \in Workers :
    /\ wk[w].read = "expired"
    /\ wk[w].pc = "done"
    /\ wk[w].served = "MISS"
    /\ wk[w].calls = 1

\* C7: the expiration inside a stored entry is the time of the write plus the
\* TTL, or None for TTL None, and stays so while the entry is stored (reads
\* included): an entry with a TTL is not expired at the time of the write and
\* is expired one second after the TTL has run out, an entry with TTL None is
\* not expired at any time.
C7_ExpiresFixedAtWrite ==
  \A r \in store :
    LET entry == JsonLoads(r.value)
    IN  IF r.ttl = None
          THEN /\ entry.expires = None
               /\ \A t \in 0..(MaxTime + 1) : ~IsExpired(entry, t)
          ELSE /\ entry.expires = Some(r.set_at + r.ttl[1])
               /\ ~IsExpired(entry, r.set_at)
               /\ IsExpired(entry, r.set_at + r.ttl[1] + 1)

\* An entry written with TTL 10, read 11 seconds after the write.
C7_Witness ==
  \E r \in store, w \in Workers :
    /\ r.ttl = Some(10)
    /\ r.set_at > 0
    /\ now = r.set_at + 11
    /\ IsExpired(JsonLoads(r.value), now)
    /\ wk[w].pc = "miss"
    /\ wk[w].key = r.key
    /\ wk[w].base_key = r.base_key

\* The values of a cache class's active key attributes for a request, in
\* the order of its key specs.
ActiveValues(cls, request) ==
  CASE cls = "RegistryContentCache" ->
         [i \in DOMAIN RegistryCacheKeys |-> ContentAllKeys(request)[RegistryCacheKeys[i]]]
    [] cls = "RegistryApiCache" ->
         [i \in DOMAIN RegistryCacheKeys |-> ApiAllKeys(request)[RegistryCacheKeys[i]]]
    [] cls = "FlatpakIndexStaticCache" ->
         [i \in DOMAIN FlatpakCacheKeys |-> FlatpakAllKeys(request)[FlatpakCacheKeys[i]]]

\* C8: for every cache class, two requests that differ in the value of an
\* active key attribute get different keys.
C8_KeysInjective ==
  kclass # "none"
    => (ActiveValues(kclass, kreqA) # ActiveValues(kclass, kreqB)
          => kkeyA # kkeyB)

\* C9: in both registry caches, two requests that agree on path, method and
\* accept header and differ in host get different keys.
C9_HostInKey ==
  (/\ kclass \in {"RegistryContentCache", "RegistryApiCache"}
   /\ kreqA.path = kreqB.path
   /\ kreqA.method = kreqB.method
   /\ kreqA.accept = kreqB.accept
   /\ kreqA.host # kreqB.host)
    => kkeyA # kkeyB

\* How often value v occurs in list l.
Count(l, v) == Cardinality({i \in DOMAIN l : l[i] = v})

SameMultiset(l, m) ==
  \A v \in {l[i] : i \in DOMAIN l} \cup {m[i] : i \in DOMAIN m} :
    Count(l, v) = Count(m, v)

\* C10: in the content cache, two requests that agree on path and method and
\* carry the same Accept header instances, in any order, get the same key.
C10_AcceptOrder ==
  (/\ kclass = "RegistryContentCache"
   /\ kreqA.path = kreqB.path
   /\ kreqA.method = kreqB.method
   /\ SameMultiset(kreqA.accept, kreqB.accept))
    => kkeyA = kkeyB

C10_Witness ==
  /\ kclass = "RegistryContentCache"
  /\ kreqA.path = kreqB.path
  /\ kreqA.method = kreqB.method
  /\ kreqA.accept = <<S_x, S_y>>
  /\ kreqB.accept = <<S_y, S_x>>
  /\ kkeyA = kkeyB

\* C11: in the registry API cache, two requests that agree on path and method
\* and supply the same Accept values in a different order get the same key.
C11_ApiAcceptOrder ==
  (/\ kclass = "RegistryApiCache"
   /\ kreqA.path = kreqB.path
   /\ kreqA.method = kreqB.method
   /\ SameMultiset(kreqA.accept, kreqB.accept))
    => kkeyA = kkeyB

\* make_entry has returned to worker w (it did not raise).
MakeEntryReturned(w) == wk[w].pc = "done" /\ wk[w].served = "MISS"

\* response is the handler's response with the marker header set to MISS and
\* nothing else changed.
OnlyMarked(response, handled) ==
  /\ Marker(response) = "MISS"
  /\ [response EXCEPT !.headers = handled.headers] = handled
  /\ \A h \in DOMAIN handled.headers : response.headers[h] = handled.headers[h]
  /\ DOMAIN response.headers = DOMAIN handled.headers \cup {"X-PULP-CACHE"}

\* C12: every response make_entry returns has the header X-PULP-CACHE equal to
\* MISS, whatever the shape of the handler's response, cached or not.
C12_MissMarked ==
  \A w \in Workers : MakeEntryReturned(w) => Marker(wk[w].response) = "MISS"

\* A response of a shape that is not cached, returned marked.
C12_Witness ==
  \E w \in Workers :
    /\ MakeEntryReturned(w)
    /\ ~Cacheable(wk[w].handled)
    /\ Marker(wk[w].handled) = "none"
    /\ Marker(wk[w].response) = "MISS"

\* C13: the entry make_entry writes carries the status and the headers of the
\* handler's response as they were before the response was marked: the stored
\* headers do not hold the MISS marker, the live response does.
C13_StoredHeadersUnmarked ==
  /\ \A w \in Workers :
       (MakeEntryReturned(w) /\ wk[w].wrote # <<>>)
         => LET entry == JsonLoads(wk[w].wrote[1])
            IN  /\ entry.headers = wk[w].handled.headers
                /\ entry.status = wk[w].handled.status_code
                /\ Marker(wk[w].response) = "MISS"
  /\ \A r \in store : Marker(JsonLoads(r.value)) = "none"

C13_Witness ==
  \E w \in Workers, r \in store :
    /\ MakeEntryReturned(w)
    /\ wk[w].wrote = <<r.value>>
    /\ r.key = wk[w].key
    /\ r.base_key = wk[w].base_key
    /\ Marker(JsonLoads(r.value)) = "none"
    /\ Marker(wk[w].response) = "MISS"

\* C14, as claimed: for a response of none of the recognized shapes make_entry
\* writes nothing and returns the response as the handler returned it.
C14_PassThroughUnmodified ==
  \A w \in Workers :
    (MakeEntryReturned(w) /\ ~Cacheable(wk[w].handled))
      => wk[w].wrote = <<>> /\ wk[w].response = wk[w].handled

\* C14, amended: for a response of none of the recognized shapes make_entry
\* leaves the store as it is and returns the response with the MISS marker
\* set and nothing else changed.
C14_PassThroughOnlyMarked ==
  [][\A w \in Workers :
       (/\ wk[w].pc = "handled"
        /\ wk'[w].pc # "handled"
        /\ ~Cacheable(wk[w].handled))
         => /\ store' = store
            /\ MakeEntryReturned(w)'
            /\ wk'[w].wrote = <<>>
            /\ OnlyMarked(wk'[w].response, wk[w].handled)
  ]_vars

C14_Witness ==
  \E w \in Workers :
    /\ MakeEntryReturned(w)
    /\ ~Cacheable(wk[w].handled)
    /\ wk[w].wrote = <<>>
    /\ wk[w].read = "absent"
    /\ StoreGet(store, wk[w].key, wk[w].base_key) = {}
    /\ OnlyMarked(wk[w].response, wk[w].handled)

\* make_entry has run to its end, or to an exception, on a response the
\* handler returned to worker w.
MakeEntryEnded(w) ==
  /\ wk[w].pc \in {"done", "failed"}
  /\ wk[w].served \in {"MISS", "ContentNotRenderedError"}

\* C15: for a structured (rest_framework) response make_entry renders the
\* response before it reads the body: the read never fails on a response
\* that is not rendered, and the entry is written with the body.
C15_RenderedBeforeRead ==
  \A w \in Workers :
    (MakeEntryEnded(w) /\ wk[w].handled.cls = "Response")
      => /\ MakeEntryReturned(w)
         /\ wk[w].wrote # <<>>
         /\ "content" \in DOMAIN JsonLoads(wk[w].wrote[1])

\* The payload fields an entry holds.
Payloads(entry) == (DOMAIN entry) \cap {"redirect_to", "path", "content"}

\* C16: every entry written has exactly one payload, the one of its type, and
\* a response is stored under the first variant it matches in the order
\* redirect, file, structured response, raw response.
C16_OnePayloadFirstVariant ==
  /\ \A r \in store :
       LET entry == JsonLoads(r.value)
       IN  /\ entry.type \in {"Redirect", "FileResponse", "Response"}
           /\ entry.type = "Redirect" => Payloads(entry) = {"redirect_to"}
           /\ entry.type = "FileResponse" => Payloads(entry) = {"path"}
           /\ entry.type = "Response" => Payloads(entry) = {"content"}
  /\ \A w \in Workers :
       (MakeEntryReturned(w) /\ wk[w].wrote # <<>>)
         => LET entry == JsonLoads(wk[w].wrote[1])
                handled == wk[w].handled
            IN  IF "HttpResponseRedirect" \in Bases(handled.cls)
                  THEN /\ entry.type = "Redirect"
                       /\ entry.redirect_to = handled.headers["Location"]
                ELSE IF "FileResponse" \in Bases(handled.cls)
                  THEN /\ entry.type = "FileResponse"
                       /\ entry.path = handled.filename
                ELSE /\ entry.type = "Response"
                     /\ entry.content = handled.content

\* A redirect, which is a raw HTTP response too, stored as a Redirect.
C16_Witness ==
  \E w \in Workers, r \in store :
    /\ MakeEntryReturned(w)
    /\ wk[w].wrote = <<r.value>>
    /\ {"HttpResponseRedirect", "HttpResponse"} \subseteq Bases(wk[w].handled.cls)
    /\ JsonLoads(r.value).type = "Redirect"
    /\ Payloads(JsonLoads(r.value)) = {"redirect_to"}

\* ---------------------------------------------------- concurrent workers
\* Two workers serve requests at the same time; a request may be cancelled
\* while its handler runs or before make_entry has written.

WorkersInit ==
  /\ KeyIdle
  /\ now = 0
  /\ expires_ttl \in TTLs
  /\ store = {}
  /\ distros = {Distro("d1", S_a_b)}
  /\ ptDistros = {Distro("d1", S_a)}
  /\ rcall = IdleCall
  /\ wk = [w \in Workers |-> IdleWorker]
  /\ active = Workers

\* The request is cancelled before make_entry reaches its set.
Cancel(w) ==
  /\ w \in active
  /\ wk[w].pc \in {"miss", "handled"}
  /\ wk' = [wk EXCEPT ![w].pc = "failed", ![w].served = "Cancelled"]
  /\ UNCHANGED <<kvars, now, expires_ttl, store, distros, ptDistros, rcall, active>>

WorkersNext ==
  \/ \E w \in Workers, request \in ApiRequests : CachedRequest(w, request)
  \/ \E w \in Workers, response \in HandlerResponses : HandlerReturns(w, response)
  \/ \E w \in Workers : HandlerRaises(w)
  \/ \E w \in Workers : MakeEntry(w)
  \/ \E w \in Workers : Cancel(w)
  \/ \E w \in Workers : Finish(w)

SpecWorkers == WorkersInit /\ [][WorkersNext]_vars

\* C17: when two workers have both missed on the same key and both have
\* written, the store holds under that key one record, whose value is the
\* complete entry one of the two wrote, and each worker returns its own
\* handler's response marked MISS, its handler called once.
C17_LastWriteWins ==
  \A w1, w2 \in Workers :
    (/\ w1 # w2
     /\ MakeEntryReturned(w1) /\ wk[w1].wrote # <<>>
     /\ MakeEntryReturned(w2) /\ wk[w2].wrote # <<>>
     /\ wk[w1].key = wk[w2].key
     /\ wk[w1].base_key = wk[w2].base_key)
      => LET got == StoreGet(store, wk[w1].key, wk[w1].base_key)
         IN  /\ Cardinality(got) = 1
             /\ \A r \in got : r.value \in {wk[w1].wrote[1], wk[w2].wrote[1]}
             /\ \A w \in {w1, w2} :
                  /\ wk[w].calls = 1
                  /\ OnlyMarked(wk[w].response, wk[w].handled)
                  /\ JsonLoads(wk[w].wrote[1]).headers = wk[w].handled.headers

\* Both missed, both wrote entries of different types, and one entry stands.
C17_Witness ==
  \E w1, w2 \in Workers :
    /\ w1 # w2
    /\ MakeEntryReturned(w1) /\ wk[w1].wrote # <<>>
    /\ MakeEntryReturned(w2) /\ wk[w2].wrote # <<>>
    /\ wk[w1].read = "absent" /\ wk[w2].read = "absent"
    /\ wk[w1].key = wk[w2].key
    /\ wk[w1].base_key = wk[w2].base_key
    /\ JsonLoads(wk[w1].wrote[1]).type # JsonLoads(wk[w2].wrote[1]).type
    /\ StoreGet(store, wk[w1].key, wk[w1].base_key)
         = {[base_key |-> wk[w1].base_key, key |-> wk[w1].key,
             value |-> wk[w1].wrote[1], ttl |-> expires_ttl, set_at |-> now]}

\* C18: a call of make_entry changes the store in one step only, its last,
\* the set of the complete entry; a step in which the handler raises, the
\* encoding raises or the request is cancelled leaves the store as it was.
C18_SingleWriteLast ==
  [][\A w \in Workers :
       wk'[w] # wk[w]
         => IF wk[w].pc = "handled" /\ MakeEntryReturned(w)' /\ wk'[w].wrote # <<>>
              THEN /\ StoreGet(store', wk[w].key, wk[w].base_key)
                        = {[base_key |-> wk[w].base_key, key |-> wk[w].key,
                            value |-> wk'[w].wrote[1], ttl |-> expires_ttl,
                            set_at |-> now]}
                   /\ store' \ StoreGet(store', wk[w].key, wk[w].base_key)
                        = store \ StoreGet(store, wk[w].key, wk[w].base_key)
                   /\ Payloads(JsonLoads(wk'[w].wrote[1])) # {}
              ELSE store' = store
  ]_vars

\* Requests that ended by an exception of the encoding and by cancellation
\* after the handler had returned, with nothing under their keys.
C18_Witness ==
  \E w1, w2 \in Workers :
    /\ wk[w1].pc = "failed" /\ wk[w1].served = "Cancelled" /\ wk[w1].calls = 1
    /\ wk[w2].pc = "failed" /\ wk[w2].served = "ContentNotRenderedError"
    /\ StoreGet(store, wk[w1].key, wk[w1].base_key) = {}
    /\ StoreGet(store, wk[w2].key, wk[w2].base_key) = {}

\* The matches no other match is longer than, and those no other match is
\* greater than in the order of the strings.
LongestMatches(matches) ==
  {m \in matches : \A e \in matches : Len(e.base_path) <= Len(m.base_path)}

GreatestMatches(matches) ==
  {m \in matches : \A e \in matches : e = m \/ StrLess(e.base_path, m.base_path)}

\* C19: when the call falls through to the pull-through table and some
\* pull-through base path is a prefix of the request path, the distribution
\* whose base key is returned is the one with the longest matching base path,
\* and choosing the greatest base path and choosing the longest one select
\* the same distribution.
C19_GreatestIsLongest ==
  [][ResolveStep =>
       LET path == rcall'.path
           domain == rcall'.domain
           matches == PrefixMatches(path, domain)
       IN  (~HasPartition(path, domain) /\ ~HasExact(path, domain) /\ matches # {})
             => /\ Cardinality(LongestMatches(matches)) = 1
                /\ LongestMatches(matches) = GreatestMatches(matches)
                /\ \A m \in LongestMatches(matches) :
                     rcall'.result = Returned(cache_key(domain, m.base_path))
  ]_vars

\* Two pull-through base paths of different lengths match, one of them the
\* whole request path, and the longer one's base key is returned.
C19_Witness ==
  /\ rcall.state = "returned"
  /\ rcall.path = S_a_b
  /\ Cardinality(PrefixMatches(rcall.path, rcall.domain)) = 2
  /\ ~HasPartition(rcall.path, rcall.domain)
  /\ ~HasExact(rcall.path, rcall.domain)
  /\ \E m \in LongestMatches(PrefixMatches(rcall.path, rcall.domain)) :
       /\ Len(m.base_path) = Len(rcall.path)
       /\ rcall.result = Returned(cache_key(rcall.domain, m.base_path))

\* ------------------------------------------- pull-through auto-provisioning
\* One domain with the pull-through distribution "a"; the handler of a
\* request that resolved through it creates the concrete distribution of the
\* request path while the request is in flight.

ProvisionInit ==
  /\ KeyIdle
  /\ now = 0
  /\ expires_ttl \in TTLs
  /\ store = {}
  /\ distros = {}
  /\ ptDistros = {Distro("d1", S_a)}
  /\ rcall = IdleCall
  /\ wk = [w \in Workers |-> IdleWorker]
  /\ active = {}

\* The pull through the pull-through distribution creates, in the
\* background, the concrete distribution named by the request path.
AutoProvision ==
  /\ rcall.state = "returned"
  /\ \E m \in ptDistros :
       rcall.result = Returned(cache_key(m.pulp_domain, m.base_path))
  /\ Distro(rcall.domain, rcall.path) \notin distros
  /\ Cardinality(distros) < MaxDistros
  /\ distros' = distros \cup {Distro(rcall.domain, rcall.path)}
  /\ UNCHANGED <<kvars, now, expires_ttl, store, ptDistros, rcall, wk, active>>

ProvisionNext ==
  \/ \E p \in ResolvePaths : Resolve(p, "d1")
  \/ AutoProvision
  \/ ResolvedSet
  \/ ResolvedDone
  \/ \E d \in distros : DeleteDistribution(d)
  \/ \E b \in {r.base_key : r \in store} : Invalidate(b)

SpecProvision == ProvisionInit /\ [][ProvisionNext]_vars

\* C20: every entry cached for a request path lies under the base key that
\* find_base_path_cached resolves the path to now, so that invalidating that
\* one base key removes every entry cached for the path.
C20_OnePartitionPerPath ==
  \A p \in ResolvePaths :
    LET key == RegistryApiCache_make_key(ApiRequest("d1", p, S_GET))
        result == find_base_path_cached(p, "d1", store, distros, ptDistros)
    IN  \A r \in store :
          r.key = key
            => /\ result.kind = "return"
               /\ r.base_key = result.base_key
               /\ \A s \in StoreInvalidate(store, result.base_key) : s.key # key

====
